---- MODULE Spec2Model ----
(***************************************************************************)
(* Verification model of                                                   *)
(*   onnxruntime/test/mlas/unittest/test_sqnbitgemm_neon_fp16.cpp          *)
(*     - the 4-bit weight prepack reference (Transpose8x8, PrepackSlice,   *)
(*       Prepack), its checker (Check) and the fp16 cast tests             *)
(*   onnxruntime/contrib_ops/rocm/bert/skip_layer_norm.cc                  *)
(*     - SkipLayerNorm::ComputeInternal                                    *)
(***************************************************************************)
EXTENDS Integers, Sequences, FiniteSets, TLC

VARIABLES
    cfg,      \* cfg[p]    : template arguments <N, K, BlkLen> of invocation p
    src,      \* src[p]    : the source buffer of invocation p (bytes)
    dst,      \* dst[p]    : the destination buffer of invocation p (bytes)
    origin,   \* origin[p] : for each destination byte, the source nibbles it was built from
    wcount,   \* wcount[p] : number of stores to each destination byte in the current run
    pc,       \* pc[p]     : loop position of Prepack in invocation p
    oob,      \* oob[p]    : out-of-range accesses made by invocation p
    runs,     \* runs[p]   : completed calls of Prepack on the same buffers
    chk,      \* state of one call of Check
    t16,      \* state of one call of TestFp16ToFp32's comparison loop
    cast,     \* state of one call of a cast kernel
    sln       \* state of one call of SkipLayerNorm::ComputeInternal

vars == <<cfg, src, dst, origin, wcount, pc, oob, runs, chk, t16, cast, sln>>

packVars == <<cfg, src, dst, origin, wcount, pc, oob, runs>>

(***************************************************************************)
(* Bounds of the model                                                     *)
(***************************************************************************)
MaxN == 17
MaxSeed == 1
MaxRuns == 2

Procs == {1, 2}

\* K and BlkLen values of the prepack configurations explored
PackKs == {1, 15, 16, 17, 33}
PackBlkLens == {1, 2, 4, 8, 16, 32, 128}

(***************************************************************************)
(* Unsigned integer arithmetic                                             *)
(***************************************************************************)
RECURSIVE BitAnd(_, _)
BitAnd(x, y) ==
    IF x = 0 \/ y = 0 THEN 0
    ELSE (IF x % 2 = 1 /\ y % 2 = 1 THEN 1 ELSE 0) + 2 * BitAnd(x \div 2, y \div 2)

RECURSIVE BitOr(_, _)
BitOr(x, y) ==
    IF x = 0 THEN y
    ELSE IF y = 0 THEN x
    ELSE (IF x % 2 = 1 \/ y % 2 = 1 THEN 1 ELSE 0) + 2 * BitOr(x \div 2, y \div 2)

\* ~x on an unsigned word; the word is cut to 30 bits, far above every value used
BitNot(x) == (2^30 - 1) - x

Shr(x, s) == x \div (2^s)

Shl(x, s) == x * (2^s)

U8(x) == x % 256

(***************************************************************************)
(* TestPrepack: Ldb and BufferSize                                         *)
(***************************************************************************)
LdbOf(K, BlkLen) ==
    (BitAnd(K + BlkLen - 1, BitNot(BlkLen - 1)) * 4 + 7) \div 8

BufferSize(c) == c.N * LdbOf(c.K, c.BlkLen)

Ldb(p) == LdbOf(cfg[p].K, cfg[p].BlkLen)

Size(p) == BufferSize(cfg[p])

\* InitializeBuffer: pseudo-random bytes in 0..255, one content per seed
InitializeBuffer(size, seed) ==
    [i \in 0..(size - 1) |->
        U8((i + 1) * (29 + 18 * seed) + (i \div 7) * 101 + (i \div 3) * 16 + seed * 77)]

\* std::vector<uint8_t> v(BufferSize): value-initialised to 0
ZeroBuffer(size) == [i \in 0..(size - 1) |-> 0]

NoOrigin == [by |-> "none", ls |-> -1, ln |-> -1, hs |-> -1, hn |-> -1]

(***************************************************************************)
(* Transpose8x8 / GetInt4 / PrepackSlice                                   *)
(***************************************************************************)
TransposeSrcIdxSwapped(L, n, k, c, r) == (n + r) * L + c + k

TransposeSrcIdx(L, n, k, c, r) == (n + c) * L + r + k

TransposeDstIdxRowMajor(L, n, k, c, r) == n * L + (r + k) + c * L

TransposeDstIdx(L, n, k, c, r) == n * L + (r + k) * 8 + c

GetInt4Flipped(v, i) == IF BitAnd(i, 1) # 0 THEN BitAnd(v, 15) ELSE Shr(v, 4)

GetInt4(v, i) == IF BitAnd(i, 1) # 0 THEN Shr(v, 4) ELSE BitAnd(v, 15)

SliceLoIdx(j, i) == j + Shr(i, 1)

SliceHiIdxSameByte(j, i) == j + Shr(i, 1)

SliceHiIdx(j, i) == j + Shr(8 + i, 1)

SliceDstIdx(j, i) == j + i

(***************************************************************************)
(* Prepack: loop positions                                                 *)
(*   phase "tile": inside Transpose8x8(src, n, k, dst) at (c, r)           *)
(*   phase "tail": inside PrepackSlice(src, n * Ldb + k, dst) at i = c     *)
(***************************************************************************)
At(phase, n, k, c, r) == [phase |-> phase, n |-> n, k |-> k, c |-> c, r |-> r]

\* for (; n < N; ++n) for (k = 0; k < Ldb; k += 8): first position at or after n
RECURSIVE TailFrom(_, _, _)
TailFrom(N, L, n) ==
    IF n < N
    THEN IF 0 < L THEN At("tail", n, 0, 0, 0) ELSE TailFrom(N, L, n + 1)
    ELSE At("done", n, 0, 0, 0)

\* for (; n + 8 <= N; n += 8) for (k = 0; k < Ldb; k += 8): first position at or after n
RECURSIVE TileFrom(_, _, _)
TileFrom(N, L, n) ==
    IF n + 8 <= N
    THEN IF 0 < L THEN At("tile", n, 0, 0, 0) ELSE TileFrom(N, L, n + 8)
    ELSE TailFrom(N, L, n)

PrepackStart(N, L) == TileFrom(N, L, 0)

AdvanceTile(N, L, q) ==
    IF q.r + 1 < 8 THEN At("tile", q.n, q.k, q.c, q.r + 1)
    ELSE IF q.c + 1 < 8 THEN At("tile", q.n, q.k, q.c + 1, 0)
    ELSE IF q.k + 8 < L THEN At("tile", q.n, q.k + 8, 0, 0)
    ELSE TileFrom(N, L, q.n + 8)

AdvanceTailInclusive(N, L, q) ==
    IF q.c + 1 < 8 THEN At("tail", q.n, q.k, q.c + 1, 0)
    ELSE IF q.k + 8 <= L THEN At("tail", q.n, q.k + 8, 0, 0)
    ELSE TailFrom(N, L, q.n + 1)

AdvanceTail(N, L, q) ==
    IF q.c + 1 < 8 THEN At("tail", q.n, q.k, q.c + 1, 0)
    ELSE IF q.k + 8 < L THEN At("tail", q.n, q.k + 8, 0, 0)
    ELSE TailFrom(N, L, q.n + 1)

\* the buffers an invocation was handed (std::vector<uint8_t>& src, dst)
SrcOfFirst(p) == src[1]

SrcOf(p) == src[p]

InRange(p, i) == 0 <= i /\ i < Size(p)

\* An access outside the vector is undefined; the run is abandoned in phase "ub",
\* which stands for every outcome, and the offending access is recorded.
Fault(p, kind, i) ==
    /\ pc' = [pc EXCEPT ![p] = At("ub", pc[p].n, pc[p].k, pc[p].c, pc[p].r)]
    /\ oob' = [oob EXCEPT ![p] = @ \cup {<<kind, i>>}]
    /\ UNCHANGED <<cfg, src, dst, origin, wcount, runs>>

Store(p, j, v, o, q) ==
    /\ dst' = [dst EXCEPT ![p][j] = v]
    /\ origin' = [origin EXCEPT ![p][j] = o]
    /\ wcount' = [wcount EXCEPT ![p][j] = @ + 1]
    /\ pc' = [pc EXCEPT ![p] = q]
    /\ runs' = [runs EXCEPT ![p] = IF q.phase = "done" THEN @ + 1 ELSE @]
    /\ UNCHANGED <<cfg, src, oob>>

\* one iteration of the inner loop of Transpose8x8: dst[j] = src[i]
TransposeStep(p) ==
    /\ pc[p].phase = "tile"
    /\ LET q == pc[p]
           i == TransposeSrcIdx(Ldb(p), q.n, q.k, q.c, q.r)
           j == TransposeDstIdx(Ldb(p), q.n, q.k, q.c, q.r)
       IN  IF ~InRange(p, i) THEN Fault(p, "read", i)
           ELSE IF ~InRange(p, j) THEN Fault(p, "write", j)
           ELSE Store(p, j, SrcOf(p)[i],
                      [by |-> "Transpose8x8", ls |-> i, ln |-> 0, hs |-> i, hn |-> 1],
                      AdvanceTile(cfg[p].N, Ldb(p), q))
    /\ UNCHANGED <<chk, t16, cast, sln>>

\* one iteration of the loop of PrepackSlice: dst[j + i] = v0 | (v1 << 4)
SliceStep(p) ==
    /\ pc[p].phase = "tail"
    /\ LET q == pc[p]
           j == q.n * Ldb(p) + q.k
           i == q.c
           a == SliceLoIdx(j, i)
           b == SliceHiIdx(j, i)
           d == SliceDstIdx(j, i)
       IN  IF ~InRange(p, a) THEN Fault(p, "read", a)
           ELSE IF ~InRange(p, b) THEN Fault(p, "read", b)
           ELSE IF ~InRange(p, d) THEN Fault(p, "write", d)
           ELSE LET v0 == GetInt4(SrcOf(p)[a], i)
                    v1 == GetInt4(SrcOf(p)[b], i + 8)
                IN  Store(p, d, U8(BitOr(v0, Shl(v1, 4))),
                          [by |-> "PrepackSlice", ls |-> a, ln |-> BitAnd(i, 1),
                           hs |-> b, hn |-> BitAnd(i + 8, 1)],
                          AdvanceTail(cfg[p].N, Ldb(p), q))
    /\ UNCHANGED <<chk, t16, cast, sln>>

\* Prepack called again on the same src and dst
Reinvoke(p) ==
    /\ pc[p].phase = "done"
    /\ runs[p] < MaxRuns
    /\ pc' = [pc EXCEPT ![p] = PrepackStart(cfg[p].N, Ldb(p))]
    /\ wcount' = [wcount EXCEPT ![p] = ZeroBuffer(Size(p))]
    /\ UNCHANGED <<cfg, src, dst, origin, oob, runs, chk, t16, cast, sln>>

(***************************************************************************)
(* Idle values of the parts a specification does not run                   *)
(***************************************************************************)
IdleCfg == [N |-> 0, K |-> 1, BlkLen |-> 16]

IdleChk == [phase |-> "idle"]
IdleT16 == [phase |-> "idle"]
IdleCast == [phase |-> "idle"]
IdleSln == [phase |-> "idle"]

(***************************************************************************)
(* SpecPack: one invocation of Prepack<Ldb, N, K> (invocation 1)           *)
(***************************************************************************)
PackConfigs == [N : 1..MaxN, K : PackKs, BlkLen : PackBlkLens]

InitPackOne(c1, s1, c2, s2) ==
    /\ cfg = (1 :> c1) @@ (2 :> c2)
    /\ src = (1 :> InitializeBuffer(BufferSize(c1), s1)) @@ (2 :> InitializeBuffer(BufferSize(c2), s2))
    /\ dst = (1 :> ZeroBuffer(BufferSize(c1))) @@ (2 :> ZeroBuffer(BufferSize(c2)))
    /\ origin = (1 :> [i \in 0..(BufferSize(c1) - 1) |-> NoOrigin])
                @@ (2 :> [i \in 0..(BufferSize(c2) - 1) |-> NoOrigin])
    /\ wcount = (1 :> ZeroBuffer(BufferSize(c1))) @@ (2 :> ZeroBuffer(BufferSize(c2)))
    /\ pc = (1 :> PrepackStart(c1.N, LdbOf(c1.K, c1.BlkLen)))
            @@ (2 :> PrepackStart(c2.N, LdbOf(c2.K, c2.BlkLen)))
    /\ oob = (1 :> {}) @@ (2 :> {})
    /\ runs = (1 :> 0) @@ (2 :> 0)

InitPack ==
    /\ \E c \in PackConfigs, s \in 1..MaxSeed : InitPackOne(c, s, IdleCfg, 1)
    /\ chk = IdleChk /\ t16 = IdleT16 /\ cast = IdleCast /\ sln = IdleSln

NextPack == TransposeStep(1) \/ SliceStep(1)

SpecPack == InitPack /\ [][NextPack]_vars

(***************************************************************************)
(* SpecConc: two invocations of Prepack on disjoint buffers, their byte    *)
(* steps interleaved in any order, each possibly called again              *)
(***************************************************************************)
ConcNs == {1, 8, 9}

ConcConfigs == [N : ConcNs, K : {16}, BlkLen : {16}]

InitConc ==
    /\ \E c1 \in ConcConfigs, c2 \in ConcConfigs, s \in 1..MaxSeed :
          InitPackOne(c1, s, c2, s + 1)
    /\ chk = IdleChk /\ t16 = IdleT16 /\ cast = IdleCast /\ sln = IdleSln

NextConc == \E p \in Procs : TransposeStep(p) \/ SliceStep(p) \/ Reinvoke(p)

SpecConc == InitConc /\ [][NextConc]_vars

\* Prepack<Ldb, N, K>(s, d) run alone from start to end
RECURSIVE SeqRun(_, _, _, _, _)
SeqRun(s, d, N, L, q) ==
    IF q.phase = "tile"
    THEN SeqRun(s,
                [d EXCEPT ![TransposeDstIdx(L, q.n, q.k, q.c, q.r)] =
                              s[TransposeSrcIdx(L, q.n, q.k, q.c, q.r)]],
                N, L, AdvanceTile(N, L, q))
    ELSE IF q.phase = "tail"
    THEN LET j == q.n * L + q.k
             v0 == GetInt4(s[SliceLoIdx(j, q.c)], q.c)
             v1 == GetInt4(s[SliceHiIdx(j, q.c)], q.c + 8)
         IN  SeqRun(s, [d EXCEPT ![SliceDstIdx(j, q.c)] = U8(BitOr(v0, Shl(v1, 4)))],
                    N, L, AdvanceTail(N, L, q))
    ELSE d

SeqPrepack(s, c) ==
    SeqRun(s, ZeroBuffer(BufferSize(c)), c.N, LdbOf(c.K, c.BlkLen),
           PrepackStart(c.N, LdbOf(c.K, c.BlkLen)))

(***************************************************************************)
(* Vocabulary of the packing claims                                        *)
(***************************************************************************)
Done1 == pc[1].phase = "done"

TestedBlkLen == cfg[1].BlkLen \in {16, 32, 128}

NibOf(v, h) == IF h = 0 THEN v % 16 ELSE v \div 16

\* element k of column n in the source layout
SrcByteOf(L, n, k) == n * L + (k \div 2)

Element(n, k) == NibOf(src[1][SrcByteOf(Ldb(1), n, k)], k % 2)

InFullTile(N, n) == 8 * (n \div 8) + 8 <= N

\* the documented addressing rule of the packed layout
PackedByteOf(L, N, n, k) ==
    IF InFullTile(N, n)
    THEN (8 * (n \div 8)) * L + (k \div 2) * 8 + (n % 8)
    ELSE n * L + (k \div 16) * 8 + (k % 8)

PackedNibOf(N, n, k) == IF InFullTile(N, n) THEN k % 2 ELSE (k % 16) \div 8

OriginNib(o, h) == IF h = 0 THEN <<o.ls, o.ln>> ELSE <<o.hs, o.hn>>

Columns == 0..(cfg[1].N - 1)

PaddedKs == 0..(2 * Ldb(1) - 1)

Bytes1 == 0..(Size(1) - 1)

\* C1: packing is a pure permutation. For BlkLen in {16, 32, 128} no destination
\* byte is stored twice, and when Prepack has returned every destination byte was
\* stored exactly once, the addressing rule maps the source nibble positions
\* one-to-one onto the destination nibble positions, and the destination nibble
\* of (column, K-index) was built from exactly that source nibble and holds its
\* value; source and destination have the same size.
C1_PurePermutation ==
    TestedBlkLen =>
        /\ \A j \in Bytes1 : wcount[1][j] <= 1
        /\ Done1 =>
            /\ DOMAIN dst[1] = DOMAIN src[1]
            /\ \A j \in Bytes1 : wcount[1][j] = 1
            /\ \A n \in Columns, k \in PaddedKs :
                  LET b == PackedByteOf(Ldb(1), cfg[1].N, n, k)
                      h == PackedNibOf(cfg[1].N, n, k)
                  IN  /\ b \in Bytes1
                      /\ OriginNib(origin[1][b], h) = <<SrcByteOf(Ldb(1), n, k), k % 2>>
                      /\ NibOf(dst[1][b], h) = Element(n, k)
            /\ Cardinality({<<PackedByteOf(Ldb(1), cfg[1].N, n, k), PackedNibOf(cfg[1].N, n, k)>> :
                               n \in Columns, k \in PaddedKs}) = 2 * Size(1)

C1_Witness ==
    /\ Done1 /\ TestedBlkLen
    /\ cfg[1].N = 17 /\ cfg[1].K = 33 /\ cfg[1].BlkLen = 32
    /\ \A j \in Bytes1 : wcount[1][j] = 1

\* C2 as stated: when Prepack has returned, each destination byte holds the two
\* nibbles of one single source byte (possibly swapped), in both regimes.
C2_OneSourceByte ==
    (Done1 /\ TestedBlkLen) =>
        \A j \in Bytes1 :
            LET o == origin[1][j]
            IN  /\ o.ls = o.hs
                /\ {o.ln, o.hn} = {0, 1}
                /\ {NibOf(dst[1][j], 0), NibOf(dst[1][j], 1)}
                      = {NibOf(src[1][o.ls], 0), NibOf(src[1][o.ls], 1)}

\* C2 amended: a destination byte written by the 8x8 transpose is one whole source
\* byte (both nibbles, not swapped); a destination byte written by the tail regroup
\* holds one nibble from each of two different source bytes of its own column,
\* 4 bytes apart (elements e and e + 8), never the two nibbles of one source byte.
C2_OneSourceByteInTilesOnly ==
    (Done1 /\ TestedBlkLen) =>
        \A j \in Bytes1 :
            LET o == origin[1][j]
                n == j \div Ldb(1)
            IN  IF InFullTile(cfg[1].N, n)
                THEN /\ o.by = "Transpose8x8"
                     /\ o.ls = o.hs /\ o.ln = 0 /\ o.hn = 1
                     /\ dst[1][j] = src[1][o.ls]
                ELSE /\ o.by = "PrepackSlice"
                     /\ o.hs = o.ls + 4 /\ o.ln = o.hn
                     /\ o.ls \div Ldb(1) = n /\ o.hs \div Ldb(1) = n
                     /\ NibOf(dst[1][j], 0) = NibOf(src[1][o.ls], o.ln)
                     /\ NibOf(dst[1][j], 1) = NibOf(src[1][o.hs], o.hn)

C2_Witness ==
    /\ Done1 /\ TestedBlkLen /\ cfg[1].N = 9
    /\ \E j \in Bytes1 : origin[1][j].by = "PrepackSlice" /\ origin[1][j].ls # origin[1][j].hs
    /\ \E j \in Bytes1 : origin[1][j].by = "Transpose8x8"

\* C3: full-tile regime. When Prepack has returned, for every group start n0
\* (a multiple of 8 with n0 + 8 <= N), byte offset b < Ldb and c < 8,
\* dst[n0*Ldb + b*8 + c] = src[(n0 + c)*Ldb + b], the byte moved whole.
C3_FullTileTranspose ==
    (Done1 /\ TestedBlkLen) =>
        \A n0 \in Columns :
            (n0 % 8 = 0 /\ n0 + 8 <= cfg[1].N) =>
                \A b \in 0..(Ldb(1) - 1), c \in 0..7 :
                    LET j == n0 * Ldb(1) + b * 8 + c
                        i == (n0 + c) * Ldb(1) + b
                    IN  /\ dst[1][j] = src[1][i]
                        /\ origin[1][j] = [by |-> "Transpose8x8", ls |-> i, ln |-> 0,
                                           hs |-> i, hn |-> 1]

C3_Witness ==
    /\ Done1 /\ TestedBlkLen /\ cfg[1].N >= 8 /\ Ldb(1) > 8
    /\ \E j \in Bytes1 : origin[1][j].by = "Transpose8x8" /\ dst[1][j] # 0

\* C4: tail regime. When Prepack has returned, exactly the columns
\* n >= 8*floor(N/8) were written by the nibble regroup and none of their bytes by
\* a transpose; for each such column, group g and i < 8 the destination byte
\* n*Ldb + 8g + i has element 16g + i in its low nibble and element 16g + i + 8
\* in its high nibble.
C4_TailRegroup ==
    (Done1 /\ TestedBlkLen) =>
        \A n \in Columns :
            /\ (n >= 8 * (cfg[1].N \div 8)) <=>
                  (\A b \in 0..(Ldb(1) - 1) : origin[1][n * Ldb(1) + b].by = "PrepackSlice")
            /\ (n < 8 * (cfg[1].N \div 8)) <=>
                  (\A b \in 0..(Ldb(1) - 1) : origin[1][n * Ldb(1) + b].by = "Transpose8x8")
            /\ (n >= 8 * (cfg[1].N \div 8)) =>
                  \A g \in 0..((Ldb(1) \div 8) - 1), i \in 0..7 :
                      LET d == dst[1][n * Ldb(1) + 8 * g + i]
                      IN  /\ NibOf(d, 0) = Element(n, 16 * g + i)
                          /\ NibOf(d, 1) = Element(n, 16 * g + i + 8)

C4_Witness ==
    /\ Done1 /\ TestedBlkLen /\ cfg[1].N = 9 /\ Ldb(1) > 8
    /\ NibOf(dst[1][8 * Ldb(1) + 8], 1) # NibOf(dst[1][8 * Ldb(1) + 8], 0)

\* C5 as stated: for BlkLen any power of two, no source index read and no
\* destination index written lies outside [0, N*Ldb).
C5_NeverOutOfRange == oob[1] = {} /\ pc[1].phase # "ub"

\* C5 amended: whenever Ldb is a multiple of 8 (which every power-of-two
\* BlkLen >= 16 gives) no access lies outside [0, N*Ldb) and Prepack runs to its end.
C5_InRangeWhenLdbMultipleOf8 ==
    (Ldb(1) % 8 = 0) =>
        /\ oob[1] = {} /\ pc[1].phase # "ub"
        /\ Done1 =>
              \A j \in Bytes1 :
                  /\ wcount[1][j] >= 1
                  /\ origin[1][j].ls \in Bytes1 /\ origin[1][j].hs \in Bytes1

C5_Witness ==
    /\ Done1 /\ Ldb(1) % 8 = 0 /\ cfg[1].BlkLen = 8 /\ cfg[1].N = 9
    /\ \A j \in Bytes1 : wcount[1][j] = 1

\* C8: invocations interleaved on disjoint buffers. Whenever an invocation has
\* returned, its destination equals what Prepack run alone on its own source
\* produces, whatever the other invocation did meanwhile; a destination byte the
\* invocation itself has not stored yet still has its initial value; no step
\* changes a source buffer; and once an invocation has returned, repeating it
\* never changes its destination again.
C8_StateOk ==
    \A p \in Procs :
        /\ pc[p].phase = "done" => dst[p] = SeqPrepack(src[p], cfg[p])
        /\ runs[p] = 0 =>
              \A j \in 0..(Size(p) - 1) :
                  wcount[p][j] = 0 => (dst[p][j] = 0 /\ origin[p][j] = NoOrigin)
        /\ oob[p] = {}

C8_StepOk ==
    \A p \in Procs :
        /\ src'[p] = src[p]
        /\ runs[p] >= 1 => dst'[p] = dst[p]

C8_ConcurrentEqualsSequential == [] C8_StateOk /\ [][C8_StepOk]_vars

C8_Witness ==
    /\ pc[1].phase = "done" /\ runs[1] = 2 /\ cfg[1].N = 9
    /\ pc[2].phase = "tail" /\ runs[2] = 1 /\ cfg[2].N = 9 /\ pc[2].c = 3
    /\ dst[1] # dst[2]

(***************************************************************************)
(* SpecCheck: one call of Check<Ldb, N, K>(packed, ref), for the            *)
(* configurations of MlasNeonFp16PrepackTest::ExecuteShort                 *)
(***************************************************************************)
Config(N, K, BlkLen) == [N |-> N, K |-> K, BlkLen |-> BlkLen]

ExecuteShortConfigs ==
    { Config(1, 1, 16), Config(1, 15, 16), Config(1, 31, 16), Config(8, 1, 16),
      Config(8, 16, 16), Config(9, 31, 16), Config(9, 33, 32), Config(15, 33, 16),
      Config(17, 67, 16), Config(17, 96, 128) }

CheckAt(c, phase, n, i, j, asserted) ==
    [phase |-> phase, cfg |-> c, n |-> n, i |-> i, j |-> j, asserted |-> asserted]

\* for (; n < N; ++n) for (i = 0; i < K; i += 2)
RECURSIVE CheckTailFrom(_, _, _)
CheckTailFrom(c, n, asserted) ==
    IF n < c.N
    THEN IF 0 < c.K THEN CheckAt(c, "tail", n, 0, 0, asserted)
         ELSE CheckTailFrom(c, n + 1, asserted)
    ELSE CheckAt(c, "done", n, 0, 0, asserted)

\* for (; n + 8 <= N; n += 8) for (i = 0; i < K; i += 2) for (j = 0; j < 8; ++j)
RECURSIVE CheckTileFrom(_, _, _)
CheckTileFrom(c, n, asserted) ==
    IF n + 8 <= c.N
    THEN IF 0 < c.K THEN CheckAt(c, "tile", n, 0, 0, asserted)
         ELSE CheckTileFrom(c, n + 8, asserted)
    ELSE CheckTailFrom(c, n, asserted)

CheckTileIdx(L, n, i, j) == n * L + Shr(i, 1) * 8 + j

CheckTailIdx(L, n, i) == n * L + Shr(i, 1)

\* ASSERT_EQ is fatal: a mismatch returns from Check at once
CheckFailed(idx) == CheckAt(chk.cfg, "failed", chk.n, chk.i, chk.j, chk.asserted \cup {idx})

\* ASSERT_EQ(packed[n*Ldb + (i>>1)*8 + j], ref[n*Ldb + (i>>1)*8 + j])
CheckTileStep ==
    /\ chk.phase = "tile"
    /\ LET c == chk.cfg
           idx == CheckTileIdx(LdbOf(c.K, c.BlkLen), chk.n, chk.i, chk.j)
           seen == chk.asserted \cup {idx}
       IN  \E equal \in BOOLEAN :
              chk' = IF ~equal THEN CheckFailed(idx)
                     ELSE IF chk.j + 1 < 8 THEN CheckAt(c, "tile", chk.n, chk.i, chk.j + 1, seen)
                     ELSE IF chk.i + 2 < c.K THEN CheckAt(c, "tile", chk.n, chk.i + 2, 0, seen)
                     ELSE CheckTileFrom(c, chk.n + 8, seen)
    /\ UNCHANGED <<packVars, t16, cast, sln>>

\* ASSERT_EQ(packed[n*Ldb + (i>>1)], ref[n*Ldb + (i>>1)])
CheckTailStep ==
    /\ chk.phase = "tail"
    /\ LET c == chk.cfg
           idx == CheckTailIdx(LdbOf(c.K, c.BlkLen), chk.n, chk.i)
           seen == chk.asserted \cup {idx}
       IN  \E equal \in BOOLEAN :
              chk' = IF ~equal THEN CheckFailed(idx)
                     ELSE IF chk.i + 2 < c.K THEN CheckAt(c, "tail", chk.n, chk.i + 2, 0, seen)
                     ELSE CheckTailFrom(c, chk.n + 1, seen)
    /\ UNCHANGED <<packVars, t16, cast, sln>>

InitCheck ==
    /\ InitPackOne(IdleCfg, 1, IdleCfg, 1)
    /\ \E c \in ExecuteShortConfigs : chk = CheckTileFrom(c, 0, {})
    /\ t16 = IdleT16 /\ cast = IdleCast /\ sln = IdleSln

NextCheck == CheckTileStep \/ CheckTailStep

SpecCheck == InitCheck /\ [][NextCheck]_vars

\* C9: when Check has run to its end without a failed assertion, for every column
\* n < N and every K-index k < K the destination byte that holds element (n, k)
\* under the two-regime addressing rule is among the indices Check asserted on.
C9_CheckCoversRealElements ==
    chk.phase = "done" =>
        \A n \in 0..(chk.cfg.N - 1), k \in 0..(chk.cfg.K - 1) :
            PackedByteOf(LdbOf(chk.cfg.K, chk.cfg.BlkLen), chk.cfg.N, n, k) \in chk.asserted

(***************************************************************************)
(* SpecT16: the comparison loop of TestFp16ToFp32<count>, src[i] = i       *)
(***************************************************************************)
AllPatterns == 65536

\* the template arguments ExecuteShort gives TestFp16ToFp32
Fp16ToFp32Counts == {AllPatterns, 1, 4, 7}

SkipMask == 7168

\* src[i] = static_cast<unsigned short>(i)
T16Src(i) == i % 65536

\* if ((src[i] & 0x1c00) == 0x1c00) continue;  // skip inf and nan
T16Skips(pattern) == BitAnd(pattern, SkipMask) = SkipMask

T16At(phase, count, i, last, verdict) ==
    [phase |-> phase, count |-> count, i |-> i, last |-> last, verdict |-> verdict]

T16Step ==
    /\ t16.phase = "loop"
    /\ LET i == t16.i
           next == IF i + 1 < t16.count THEN "loop" ELSE "done"
       IN  IF T16Skips(T16Src(i))
           THEN t16' = T16At(next, t16.count, i + 1, T16Src(i), "skipped")
           ELSE \E equal \in BOOLEAN :
                   t16' = IF equal THEN T16At(next, t16.count, i + 1, T16Src(i), "compared")
                          ELSE T16At("failed", t16.count, i, T16Src(i), "compared")
    /\ UNCHANGED <<packVars, chk, cast, sln>>

InitT16 ==
    /\ InitPackOne(IdleCfg, 1, IdleCfg, 1)
    /\ \E count \in Fp16ToFp32Counts :
          t16 = T16At(IF 0 < count THEN "loop" ELSE "done", count, 0, -1, "none")
    /\ chk = IdleChk /\ cast = IdleCast /\ sln = IdleSln

NextT16 == T16Step

SpecT16 == InitT16 /\ [][NextT16]_vars

\* C7: a pattern is skipped by the comparison loop if and only if it encodes
\* infinity or NaN, i.e. (pattern & 0x7C00) = 0x7C00; every other pattern is compared.
C7_SkipsExactlyInfNan ==
    t16.verdict # "none" =>
        ((t16.verdict = "skipped") <=> (BitAnd(t16.last, 31744) = 31744))

(***************************************************************************)
(* SpecCast: one call of a cast kernel, MlasCastF16ToF32KernelNeon or      *)
(* MlasCastF32ToF16KernelNeon (src, dest, count): full vector chunks, then *)
(* an elementwise tail.  A 16-bit float is its bit pattern 0..65535; a     *)
(* 32-bit float is [s |-> sign bit, m |-> the other 31 bits].              *)
(***************************************************************************)
MaxCount == 17

VecWidth == 8

RECURSIVE Msb(_)
Msb(x) == IF x <= 1 THEN 0 ELSE 1 + Msb(x \div 2)

F32(sign, bits) == [s |-> sign, m |-> bits]

\* exact widening; quiet tells whether the path sets the quiet bit of a NaN
WidenToFull(h, quiet) ==
    LET sign == h \div 32768
        e == (h \div 1024) % 32
        f == h % 1024
    IN  IF e = 31
        THEN IF f = 0 THEN F32(sign, 255 * 2^23)
             ELSE F32(sign, 255 * 2^23 + (IF quiet THEN BitOr(f, 512) ELSE f) * 8192)
        ELSE IF e = 0
        THEN IF f = 0 THEN F32(sign, 0)
             ELSE F32(sign, (Msb(f) + 103) * 2^23 + (f * 2^(23 - Msb(f)) - 2^23))
        ELSE F32(sign, (e + 112) * 2^23 + f * 8192)

RoundNearestEven(q, rem, half) ==
    q + (IF rem > half \/ (rem = half /\ q % 2 = 1) THEN 1 ELSE 0)

\* narrowing with round-to-nearest(-even)
NarrowToHalf(x, quiet) ==
    LET e == x.m \div 2^23
        f == x.m % 2^23
        mag == IF e = 255
               THEN IF f = 0 THEN 31744
                    ELSE 31744 + (IF quiet \/ f \div 8192 = 0
                                  THEN BitOr(f \div 8192, 512) ELSE f \div 8192)
               ELSE IF e >= 113
               THEN LET r == RoundNearestEven((e - 112) * 1024 + f \div 8192, f % 8192, 4096)
                    IN  IF r >= 31744 THEN 31744 ELSE r
               ELSE IF e = 0 \/ 126 - e >= 26 THEN 0
               ELSE RoundNearestEven((f + 2^23) \div 2^(126 - e), (f + 2^23) % 2^(126 - e),
                                     2^(125 - e))
    IN  x.s * 32768 + mag

\* static_cast<float>(i) + 0.125f, as bits
TestF32(i) ==
    LET t == 8 * i + 1
    IN  F32(0, (Msb(t) + 124) * 2^23 + (t * 2^(23 - Msb(t)) - 2^23))

\* input sweeps: "test" is the sweep of the tests, the others cross the
\* subnormal, overflow and Inf/NaN borders
WidenInput(sweep, i) ==
    CASE sweep = "test" -> i % 65536
      [] sweep = "subnormal" -> 1020 + i
      [] sweep = "infnan" -> 31736 + i
      [] sweep = "negative" -> 64504 + i

NarrowInput(sweep, i) ==
    CASE sweep = "test" -> TestF32(i)
      [] sweep = "subnormal" -> F32(0, 947896320 + i * 4096)
      [] sweep = "infnan" -> F32(0, 2139095036 + i)
      [] sweep = "negative" -> F32(1, 1199558656 + i * 1024)

Sweeps == {"test", "subnormal", "infnan", "negative"}

CastInput(op, sweep, i) ==
    IF op = "F16ToF32" THEN WidenInput(sweep, i) ELSE NarrowInput(sweep, i)

CastConvert(op, v, quiet) ==
    IF op = "F16ToF32" THEN WidenToFull(v, quiet) ELSE NarrowToHalf(v, quiet)

\* std::vector<float> dest(count) / std::vector<unsigned short> dest(count)
CastZero(op) == IF op = "F16ToF32" THEN F32(0, 0) ELSE 0

VecLaneBroadcast(i, l) == i

VecLane(i, l) == i + l

HasFullChunk(i, count) == count - i >= VecWidth

CastPhase(i, count) ==
    IF HasFullChunk(i, count) THEN "vector" ELSE IF i < count THEN "scalar" ELSE "done"

\* one vector-width chunk: load VecWidth elements, convert, store
CastVectorChunk ==
    /\ cast.phase = "vector"
    /\ LET i == cast.i
           lanes == 0..(VecWidth - 1)
           touched == {VecLane(i, l) : l \in lanes}
       IN  cast' = [cast EXCEPT
                      !.dst = [j \in DOMAIN cast.dst |->
                                 IF j \in {i + l : l \in lanes}
                                 THEN CastConvert(cast.op, cast.src[VecLane(i, j - i)], cast.quietV)
                                 ELSE cast.dst[j]],
                      !.wcount = [j \in DOMAIN cast.wcount |->
                                    IF j \in {i + l : l \in lanes} THEN cast.wcount[j] + 1
                                    ELSE cast.wcount[j]],
                      !.reads = @ \cup touched,
                      !.i = i + VecWidth,
                      !.phase = CastPhase(i + VecWidth, cast.count)]
    /\ UNCHANGED <<packVars, chk, t16, sln>>

\* the elementwise tail: one element
CastScalarTail ==
    /\ cast.phase = "scalar"
    /\ LET i == cast.i
       IN  cast' = [cast EXCEPT
                      !.dst[i] = CastConvert(cast.op, cast.src[i], cast.quietS),
                      !.wcount[i] = @ + 1,
                      !.reads = @ \cup {i},
                      !.i = i + 1,
                      !.phase = CastPhase(i + 1, cast.count)]
    /\ UNCHANGED <<packVars, chk, t16, sln>>

InitCast ==
    /\ InitPackOne(IdleCfg, 1, IdleCfg, 1)
    /\ \E op \in {"F16ToF32", "F32ToF16"}, sweep \in Sweeps, count \in 0..MaxCount,
          qv \in BOOLEAN, qs \in BOOLEAN :
          cast = [phase |-> CastPhase(0, count), op |-> op, count |-> count,
                  src |-> [i \in 0..(count - 1) |-> CastInput(op, sweep, i)],
                  dst |-> [i \in 0..(count - 1) |-> CastZero(op)],
                  wcount |-> [i \in 0..(count - 1) |-> 0],
                  reads |-> {}, i |-> 0, quietV |-> qv, quietS |-> qs]
    /\ chk = IdleChk /\ t16 = IdleT16 /\ sln = IdleSln

NextCast == CastVectorChunk \/ CastScalarTail

SpecCast == InitCast /\ [][NextCast]_vars

\* C6: a cast kernel never stores an element twice and touches no index >= count;
\* when it has returned it has read and stored exactly the elements 0..count-1,
\* each once, and dst[i] is the conversion of src[i] alone (for a NaN input: one
\* of the NaN encodings the conversion of that input can give).
C6_ExactlyCountElementwise ==
    /\ \A j \in DOMAIN cast.dst : cast.wcount[j] <= 1 /\ (j >= cast.i => cast.wcount[j] = 0)
    /\ cast.reads \subseteq 0..(cast.count - 1)
    /\ cast.phase = "done" =>
          /\ cast.i = cast.count
          /\ cast.reads = 0..(cast.count - 1)
          /\ \A j \in 0..(cast.count - 1) :
                /\ cast.wcount[j] = 1
                /\ cast.dst[j] \in {CastConvert(cast.op, cast.src[j], q) : q \in BOOLEAN}

C6_Witness ==
    /\ cast.phase = "done" /\ cast.count = 17 /\ cast.op = "F16ToF32"
    /\ cast.src[16] = 16 /\ cast.dst[16] = F32(0, 897581056)
    /\ cast.dst[7] = F32(0, 887095296)

(***************************************************************************)
(* SpecSln: one call of SkipLayerNorm<T, Simplified>::ComputeInternal      *)
(***************************************************************************)
MaxRank == 3

MaxDim == 2

RECURSIVE ShapesOfRank(_)
ShapesOfRank(r) ==
    IF r = 0 THEN {<<>>}
    ELSE {Append(d, x) : d \in ShapesOfRank(r - 1), x \in 0..MaxDim}

InputShapes == UNION {ShapesOfRank(r) : r \in 0..MaxRank}

\* skip is 2-D or 3-D
SkipShapes == {<<2, 2>>, <<1, 2, 2>>, <<2, 1, 2>>}

\* TensorShape::Size(): the product of the dimensions
RECURSIVE ShapeSize(_)
ShapeSize(d) == IF Len(d) = 0 THEN 1 ELSE d[Len(d)] * ShapeSize(SubSeq(d, 1, Len(d) - 1))

Statuses == {"OK", "INVALID_ARGUMENT"}

\* ORT_RETURN_IF_ERROR(CheckInputs(...)): where the call goes on a status
ReturnIfErrorIgnored(st) == "launch"

ReturnIfError(st) == IF st # "OK" THEN "returned" ELSE "launch"

\* lines 48-63: fetch the inputs, create the outputs, return OK on an empty input
SlnEntry ==
    /\ sln.phase = "entry"
    /\ sln' = IF ShapeSize(sln.inputDims) = 0
              THEN [sln EXCEPT !.phase = "returned", !.status = "OK"]
              ELSE [sln EXCEPT !.phase = "dims"]
    /\ UNCHANGED <<packVars, chk, t16, cast>>

\* lines 65-70: hidden_size = input_dims[input_dims_size - 1]; for a rank-0
\* input the index is out of range: GetDims() gives a bounds-checked span, whose
\* operator[] terminates the call (no status is returned, nothing is launched)
SlnReadDims ==
    /\ sln.phase = "dims"
    /\ sln' = IF Len(sln.inputDims) = 0
              THEN [sln EXCEPT !.phase = "terminated"]
              ELSE [sln EXCEPT !.phase = "check",
                               !.hidden_size = sln.inputDims[Len(sln.inputDims)]]
    /\ UNCHANGED <<packVars, chk, t16, cast>>

\* lines 72-78: CheckInputs is an external helper, its status an input
SlnCheckInputs ==
    /\ sln.phase = "check"
    /\ \E st \in Statuses :
          sln' = [sln EXCEPT !.events = Append(@, "CheckInputs"),
                             !.checkStatus = st,
                             !.phase = ReturnIfError(st),
                             !.status = IF ReturnIfError(st) = "returned" THEN st ELSE @]
    /\ UNCHANGED <<packVars, chk, t16, cast>>

\* lines 80-100: return LaunchSkipLayerNormKernel(...)
SlnLaunch ==
    /\ sln.phase = "launch"
    /\ LET sd == sln.skipDims
           n == Len(sd)
       IN  \E st \in Statuses :
              sln' = [sln EXCEPT
                        !.events = Append(@, "Launch"),
                        !.launch = [hidden_size |-> sln.hidden_size,
                                    element_count |-> ShapeSize(sln.inputDims),
                                    skip_broadcasted |-> (sd[1] = 1 \/ n = 2),
                                    skip_size |-> sd[n] * sd[n - 1],
                                    beta |-> (~sln.simplified /\ sln.in3),
                                    bias |-> IF sln.simplified THEN sln.in3 ELSE sln.in4,
                                    sum_output |-> sln.out3],
                        !.phase = "returned",
                        !.status = st]
    /\ UNCHANGED <<packVars, chk, t16, cast>>

NoLaunch == [hidden_size |-> -1, element_count |-> -1, skip_broadcasted |-> FALSE,
             skip_size |-> -1, beta |-> FALSE, bias |-> FALSE, sum_output |-> FALSE]

InitSln ==
    /\ InitPackOne(IdleCfg, 1, IdleCfg, 1)
    /\ \E simplified \in BOOLEAN, in3 \in BOOLEAN, in4 \in BOOLEAN, out3 \in BOOLEAN,
          d \in InputShapes, sd \in SkipShapes :
          sln = [phase |-> "entry", simplified |-> simplified, in3 |-> in3,
                 in4 |-> (in4 /\ ~simplified), out3 |-> out3,
                 inputDims |-> d, skipDims |-> sd, hidden_size |-> -1,
                 events |-> <<>>, checkStatus |-> "none", status |-> "none",
                 launch |-> NoLaunch]
    /\ chk = IdleChk /\ t16 = IdleT16 /\ cast = IdleCast

NextSln == SlnEntry \/ SlnReadDims \/ SlnCheckInputs \/ SlnLaunch

SpecSln == InitSln /\ [][NextSln]_vars

Launched == \E k \in 1..Len(sln.events) : sln.events[k] = "Launch"

\* C10: the kernel is launched only after CheckInputs ran and succeeded; when
\* CheckInputs fails its status is returned and the kernel is never launched;
\* a call that returns OK either launched the kernel after a successful
\* CheckInputs or had an input of zero elements and launched nothing.
C10_LaunchOnlyAfterCheck ==
    /\ Launched => (sln.events = <<"CheckInputs", "Launch">> /\ sln.checkStatus = "OK")
    /\ (sln.checkStatus \notin {"none", "OK"}) =>
          (sln.phase = "returned" /\ sln.status = sln.checkStatus /\ ~Launched)
    /\ (sln.phase = "returned" /\ sln.status = "OK") =>
          \/ (sln.events = <<"CheckInputs", "Launch">> /\ sln.checkStatus = "OK")
          \/ (ShapeSize(sln.inputDims) = 0 /\ sln.events = <<>>)

C10_Witness ==
    /\ sln.phase = "returned" /\ sln.status = "OK" /\ Launched
    /\ sln.launch.element_count = 8 /\ sln.launch.skip_broadcasted

====
